---- MODULE Spec2Model ----
(***************************************************************************)
(* A model of pivotalclient.PivotalClient (src/pivotalclient/__init__.py): *)
(* the transport _get, the paginator _get_all, the identifier guards and   *)
(* the public accessors built on them.  The remote service and the         *)
(* requests library are the environment: every fetch draws its outcome     *)
(* from a small set.                                                       *)
(***************************************************************************)
EXTENDS Integers, Sequences, FiniteSets, TLC

\* ---------------------------------------------------------------- bounds
MaxN == 3
MaxCap == 2
MaxCalls == 5
MaxIntegrations == 2

\* ------------------------------------------------------ program constants
DEFAULT_PAGE_LIMIT == 1000

VARIABLES
    account_id,      \* self.account_id
    project_id,      \* self.project_id
    auth_headers,    \* self.auth_headers
    api_filter,      \* self.api_filter
    pc,              \* where the client is: idle, get_all, integration_stories, returned, raised
    method,          \* the public method (or _get_all) that was called
    endpoint,        \* endpoint argument of the call in progress
    querystring,     \* the caller's querystring mapping
    _querystring,    \* _get_all's local copy, holding the page cursor
    results,         \* the accumulator of _get_all / get_all_integration_stories
    integrations,    \* get_all_integration_stories: the integration list
    idx,             \* get_all_integration_stories: position in the list
    request,         \* the last request handed to requests.get
    response,        \* what requests.get produced for it
    calls,           \* network calls issued by the call in progress
    error,           \* the exception the call raised, if any
    retval,          \* the value the call returned, if any
    server,          \* the remote service the call talks to
    honest,          \* every answer of this call followed the paging contract
    advanced,        \* an earlier _get_all on this client moved its cursor
    given,           \* the caller's querystring mapping as it was when passed
    pages            \* the lists the call's successful fetches delivered, in order

vars == <<account_id, project_id, auth_headers, api_filter, pc, method, endpoint,
          querystring, _querystring, results, integrations, idx, request,
          response, calls, error, retval, server, honest, advanced, given, pages>>

\* ------------------------------------------------------------- Python values
None == "None"
Falsy(x) == x \in {None, ""}

EmptyMap == [k \in {} |-> 0]

\* d[k] = v on a dict
Put(d, k, v) == [x \in (DOMAIN d) \cup {k} |-> IF x = k THEN v ELSE d[x]]

\* '...{}...'.format(arg) on a URL kept as its path segments
Format(template, arg) ==
    [i \in DOMAIN template |-> IF template[i] = "{}" THEN arg ELSE template[i]]

Min(a, b) == IF a < b THEN a ELSE b
Max(a, b) == IF a > b THEN a ELSE b

\* a record of the remote service: an opaque JSON object
Rec(i) == [id |-> i]

\* ------------------------------------------------------------- URL templates
api_root == <<"https://www.pivotaltracker.com/services/v5">>
api_accounts == api_root \o <<"accounts">>
api_account == api_accounts \o <<account_id>>
api_account_memberships == api_account \o <<"memberships">>
api_projects == api_root \o <<"projects">>
api_project == api_projects \o <<project_id>>
api_project_memberships == api_project \o <<"memberships">>
api_stories == api_project \o <<"stories">>
api_activity == api_project \o <<"stories", "{}", "activity">>
api_integrations == api_project \o <<"integrations">>
api_integration == api_integrations \o <<"{}">>
api_integration_stories == api_integrations \o <<"{}", "stories">>

NoEndpoint == <<>>

\* ------------------------------------------------------------------ errors
NoError == [kind |-> "none", endpoint |-> NoEndpoint, status |-> 0, caller |-> ""]

\* ApiError('GET {} {}'.format(endpoint, resp.status_code))
GetError(ep, status) ==
    [kind |-> "ApiError", endpoint |-> ep, status |-> status, caller |-> ""]

\* ApiError('... ID not set on API connection and is required by {}().')
IdError(caller_name) ==
    [kind |-> "ApiError", endpoint |-> NoEndpoint, status |-> 0, caller |-> caller_name]

\* an exception that is not an ApiError, raised below _get's own raise
Foreign(kind, ep) ==
    [kind |-> kind, endpoint |-> ep, status |-> 0, caller |-> ""]

NoValue == [set |-> FALSE, value |-> <<>>]
Value(v) == [set |-> TRUE, value |-> v]

\* ------------------------------------------------ the environment's answers
NoRequest == [endpoint |-> NoEndpoint, params |-> EmptyMap, headers |-> EmptyMap]

\* what requests.get produced: a Response (status, body), no object at all
\* ("null"), or a network-level failure that requests raises ("netfail")
Outcome(kind, status, json, hasData, data, pag, limit, total, list) ==
    [kind |-> kind, status |-> status, json |-> json, hasData |-> hasData,
     data |-> data, pag |-> pag, limit |-> limit, total |-> total, list |-> list]

NoResponse == Outcome("none", 0, FALSE, FALSE, <<>>, "none", 0, 0, <<>>)
NetFail == Outcome("netfail", 0, FALSE, FALSE, <<>>, "none", 0, 0, <<>>)
NullResponse == Outcome("null", 0, FALSE, FALSE, <<>>, "none", 0, 0, <<>>)
StatusOnly(status) == Outcome("response", status, TRUE, FALSE, <<>>, "none", 0, 0, <<>>)
NotJson(status) == Outcome("response", status, FALSE, FALSE, <<>>, "none", 0, 0, <<>>)

Statuses == {199, 200, 299, 300, 404, 500}
Is2xx(status) == 200 <= status /\ status < 300
OkStatuses == {s \in Statuses : Is2xx(s)}
BadStatuses == Statuses \ OkStatuses

\* the ways a fetch can fail, whatever was asked
Failures ==
    {NetFail, NullResponse}
        \cup {StatusOnly(s) : s \in BadStatuses}
        \cup {NotJson(s) : s \in OkStatuses}

\* The remote service holds the records Rec(1) .. Rec(n) and serves at most cap
\* of them per page.
Servers == [n : 0..MaxN, cap : (1..MaxCap) \cup {DEFAULT_PAGE_LIMIT}]
NoServer == [n |-> 0, cap |-> 1]

\* the records at positions offset .. offset+limit-1 (0-based), fewer at the
\* end, none past the end
Window(n, offset, limit) ==
    IF offset < 0 \/ limit <= 0 THEN <<>>
    ELSE [i \in 1..Max(0, Min(limit, n - offset)) |-> Rec(offset + i)]

\* the page size the service applies to a request
EffLimit(srv, params) == Min(params["limit"], srv.cap)

\* the answer the paging contract prescribes for an enveloped request
HonestAnswer(srv, params, status) ==
    Outcome("response", status, TRUE, TRUE,
            Window(srv.n, params["offset"], EffLimit(srv, params)),
            "limit", EffLimit(srv, params), srv.n, <<>>)

\* pagination.limit values a service may report besides the one it applied
OddLimits == {-1, 0, 1}

\* every enveloped 2xx JSON answer the model lets the service give: the page
\* asked for, an empty page or no data field; with the applied limit, another
\* limit, a pagination object without limit, or no pagination object; or, from
\* a service that ignores offset, its first page once more
EnvelopedAnswers(srv, params) ==
    LET win == Window(srv.n, params["offset"], EffLimit(srv, params))
        eff == EffLimit(srv, params)
    IN  {HonestAnswer(srv, params, s) : s \in OkStatuses}
        \cup {Outcome("response", 200, TRUE, TRUE, Window(srv.n, 0, eff),
                      "limit", eff, srv.n, <<>>)}
        \cup {Outcome("response", 200, TRUE, TRUE, d, "limit", l, srv.n, <<>>) :
                d \in {win, <<>>}, l \in {eff} \cup OddLimits}
        \cup {Outcome("response", 200, TRUE, TRUE, win, p, 0, srv.n, <<>>) :
                p \in {"none", "nolimit"}}
        \cup {Outcome("response", 200, TRUE, FALSE, <<>>, "limit", eff, srv.n, <<>>)}

IsHonest(srv, params, resp) ==
    \E s \in OkStatuses : resp = HonestAnswer(srv, params, s)

\* a bare (non-enveloped) resource: a JSON list
Ramp(a, k) == [i \in 1..k |-> Rec(a + i - 1)]
BareLists == {Ramp(a, k) : a \in 1..2, k \in 0..MaxIntegrations}
BareAnswers ==
    {Outcome("response", s, TRUE, FALSE, <<>>, "none", 0, 0, l) :
        s \in OkStatuses, l \in BareLists}

\* ------------------------------------------------------------------- _get
\* querystring.copy() if querystring else {}
QsCopy(q) == IF DOMAIN q = {} THEN EmptyMap ELSE q

\* faulty variant: envelope is injected whatever with_envelope says
Params_AlwaysEnvelope(q, with_envelope) == Put(QsCopy(q), "envelope", "true")

\* faulty variant: no copy is taken, the writes land in the original mapping
\* (a falsy original is still replaced by a new {})
CopyKeeps_Alias(orig, written) == IF DOMAIN orig = {} THEN orig ELSE written

\* .copy(): what the original mapping holds once its copy has been written
\* to and holds `written`
CopyKeeps(orig, written) == orig

\* the parameters _get sends
Params(q, with_envelope) ==
    IF with_envelope THEN Put(QsCopy(q), "envelope", "true") ELSE QsCopy(q)

\* bool(resp): a Response is true unless its status is 4xx or 5xx
Truthy(resp) ==
    resp.kind = "response" /\ ~(400 <= resp.status /\ resp.status < 600)

\* faulty variant: the status range is closed at 300
GetOutcome_Inclusive(ep, resp) ==
    IF resp.kind = "netfail" THEN Foreign("ConnectionError", ep)
    ELSE IF ~Truthy(resp) \/ ~(200 <= resp.status /\ resp.status <= 300)
         THEN IF resp.kind = "null" THEN Foreign("AttributeError", ep)
              ELSE GetError(ep, resp.status)
    ELSE IF ~resp.json THEN Foreign("ValueError", ep)
    ELSE NoError

\* what _get raises for an outcome of requests.get (NoError: it returns)
GetOutcome(ep, resp) ==
    IF resp.kind = "netfail" THEN Foreign("ConnectionError", ep)
    ELSE IF ~Truthy(resp) \/ ~(200 <= resp.status /\ resp.status < 300)
         THEN IF resp.kind = "null" THEN Foreign("AttributeError", ep)
              ELSE GetError(ep, resp.status)
    ELSE IF ~resp.json THEN Foreign("ValueError", ep)
    ELSE NoError

Sent(ep, q, with_envelope) ==
    [endpoint |-> ep, params |-> Params(q, with_envelope), headers |-> auth_headers]

\* ---------------------------------------------------------------- _get_all
\* faulty variant: limit and offset are set only when the caller gave none
StartCursor_SetDefault(q) ==
    LET c == QsCopy(q)
        l == IF "limit" \in DOMAIN c THEN c ELSE Put(c, "limit", DEFAULT_PAGE_LIMIT)
    IN  IF "offset" \in DOMAIN l THEN l ELSE Put(l, "offset", 0)

\* lines 92-94: the copy with the cursor at its start
StartCursor(q) ==
    Put(Put(QsCopy(q), "limit", DEFAULT_PAGE_LIMIT), "offset", 0)

\* response.get('data', [])
Data(body) == IF body.hasData THEN body.data ELSE <<>>

\* faulty variant: the limit the service reports is ignored
PageLimit_Default(body) == DEFAULT_PAGE_LIMIT

\* response.get('pagination', {}).get('limit', DEFAULT_PAGE_LIMIT)
PageLimit(body) == IF body.pag = "limit" THEN body.limit ELSE DEFAULT_PAGE_LIMIT

\* faulty variant: the mapping is rebuilt with the cursor keys only
SetLimit_Fresh(q, body) ==
    [k \in {"limit", "offset"} |-> IF k = "limit" THEN PageLimit(body) ELSE q["offset"]]

\* _querystring['limit'] = ...
SetLimit(q, body) == Put(q, "limit", PageLimit(body))

\* faulty variant: the offset passes one record too many
AddOffset_Skip(q) == Put(q, "offset", q["offset"] + q["limit"] + 1)

\* _querystring['offset'] += _querystring['limit']
AddOffset(q) == Put(q, "offset", q["offset"] + q["limit"])

\* faulty variant: the offset is advanced before the limit is updated
Advance_Swapped(q, body) == SetLimit(AddOffset(q), body)

\* lines 106-110: the cursor after a non-empty page
Advance(q, body) == AddOffset(SetLimit(q, body))

\* faulty variant: a page that holds as many records as pagination.total also
\* ends the loop
Stop_AtTotal(body) == Len(Data(body)) = 0 \/ Len(Data(body)) >= body.total

\* faulty variant: only a missing data field ends the loop
Stop_KeyOnly(body) == ~body.hasData

\* line 100: no results in this page
Stop(body) == Len(Data(body)) = 0

\* faulty variant: records already accumulated are not added again
Extend_Dedup(res, data) ==
    res \o SelectSeq(data, LAMBDA r : \A i \in DOMAIN res : res[i] # r)

\* results.extend(data)
Extend(res, data) == res \o data

\* with_envelope of _get_all's fetches
GetAllEnvelope == TRUE

Ready == pc = "idle"

GetAllMethods == {"_get_all", "get_stories_by_filter", "get_stories_by_label"}

\* entering _get_all(endpoint, querystring) from method m
Enter_get_all(m, ep, q, srv) ==
    /\ method' = m
    /\ endpoint' = ep
    /\ given' = q
    /\ querystring' = CopyKeeps(q, StartCursor(q))
    /\ _querystring' = StartCursor(q)
    /\ pages' = <<>>
    /\ results' = <<>>
    /\ request' = NoRequest
    /\ response' = NoResponse
    /\ calls' = 0
    /\ error' = NoError
    /\ retval' = NoValue
    /\ server' = srv
    /\ honest' = TRUE
    /\ pc' = "get_all"
    /\ integrations' = <<>>
    /\ idx' = 1
    /\ UNCHANGED <<account_id, project_id, auth_headers, advanced>>

\* a caller's querystring mappings
QueryInputs ==
    {EmptyMap,
     [k \in {"filter"} |-> "state:started"],
     [k \in {"limit", "offset", "envelope"} |->
        IF k = "limit" THEN 5 ELSE IF k = "offset" THEN 7 ELSE "false"]}

Endpoints == {<<"E">>}

\* _get_all called directly
Call_get_all ==
    /\ Ready
    /\ \E ep \in Endpoints, q \in QueryInputs, srv \in Servers :
        /\ Enter_get_all("_get_all", ep, q, srv)
        /\ UNCHANGED api_filter

\* faulty variant: a failed fetch ends the loop and the pages so far are returned
LoopTurn_Swallow(ep, q, res, resp) ==
    IF GetOutcome(ep, resp) # NoError \/ Stop(resp)
    THEN [pc |-> "returned", error |-> NoError, retval |-> Value(res),
          results |-> res, cursor |-> q]
    ELSE [pc |-> "get_all", error |-> NoError, retval |-> NoValue,
          results |-> Extend(res, Data(resp)), cursor |-> Advance(q, resp)]

\* faulty variant: the loop also ends once two records are accumulated
LoopTurn_Bounded(ep, q, res, resp) ==
    LET err == GetOutcome(ep, resp) IN
    IF err # NoError
    THEN [pc |-> "raised", error |-> err, retval |-> NoValue,
          results |-> res, cursor |-> q]
    ELSE IF Stop(resp) \/ Len(res) >= 2
    THEN [pc |-> "returned", error |-> NoError, retval |-> Value(res),
          results |-> res, cursor |-> q]
    ELSE [pc |-> "get_all", error |-> NoError, retval |-> NoValue,
          results |-> Extend(res, Data(resp)), cursor |-> Advance(q, resp)]

\* one turn of the while loop (lines 97-110) or the return (line 111), for the
\* outcome resp of the turn's fetch: where the call is afterwards
LoopTurn(ep, q, res, resp) ==
    LET err == GetOutcome(ep, resp) IN
    IF err # NoError
    THEN [pc |-> "raised", error |-> err, retval |-> NoValue,
          results |-> res, cursor |-> q]
    ELSE IF Stop(resp)
    THEN [pc |-> "returned", error |-> NoError, retval |-> Value(res),
          results |-> res, cursor |-> q]
    ELSE [pc |-> "get_all", error |-> NoError, retval |-> NoValue,
          results |-> Extend(res, Data(resp)), cursor |-> Advance(q, resp)]

GetAllPage ==
    /\ pc = "get_all"
    /\ calls < MaxCalls
    /\ LET req == Sent(endpoint, _querystring, GetAllEnvelope) IN
       \E resp \in Failures \cup EnvelopedAnswers(server, req.params) :
        LET mine == CopyKeeps(_querystring, req.params)
            turn == LoopTurn(endpoint, mine, results, resp)
        IN
        /\ request' = req
        /\ response' = resp
        /\ calls' = calls + 1
        /\ honest' = (honest /\ IsHonest(server, req.params, resp))
        /\ pc' = turn.pc
        /\ error' = turn.error
        /\ retval' = turn.retval
        /\ results' = turn.results
        /\ _querystring' = turn.cursor
        /\ querystring' = CopyKeeps(querystring, turn.cursor)
        /\ pages' = IF turn.error = NoError THEN Append(pages, Data(resp)) ELSE pages
        /\ UNCHANGED <<account_id, project_id, auth_headers, api_filter, method,
                       endpoint, integrations, idx, server, advanced, given>>

\* ------------------------------------------------------- identifier guards
\* faulty variant: the project guard looks at the account id
_verify_project_id_exists_Account(caller_name) ==
    IF Falsy(account_id) THEN IdError(caller_name) ELSE NoError

\* _verify_project_id_exists, called from caller_name
_verify_project_id_exists(caller_name) ==
    IF Falsy(project_id) THEN IdError(caller_name) ELSE NoError

\* _verify_account_id_exists, called from caller_name
_verify_account_id_exists(caller_name) ==
    IF Falsy(account_id) THEN IdError(caller_name) ELSE NoError

\* the locals of _get_all and get_all_integration_stories do not exist outside
\* a call of theirs
Locals0 ==
    /\ _querystring' = EmptyMap
    /\ results' = <<>>
    /\ integrations' = <<>>
    /\ idx' = 1
    /\ pages' = <<>>

\* method m ends by raising err before any fetch
RaiseEarly(m, err) ==
    /\ method' = m
    /\ error' = err
    /\ pc' = "raised"
    /\ retval' = NoValue
    /\ calls' = 0
    /\ request' = NoRequest
    /\ response' = NoResponse
    /\ endpoint' = NoEndpoint
    /\ server' = NoServer
    /\ honest' = TRUE
    /\ querystring' = EmptyMap
    /\ given' = EmptyMap
    /\ Locals0
    /\ UNCHANGED <<account_id, project_id, auth_headers, api_filter, advanced>>

\* method m ends with one _get(ep, q): it returns the body or raises
FetchOnce(m, ep, q) ==
    \E resp \in Failures \cup BareAnswers :
        LET err == GetOutcome(ep, resp) IN
        /\ method' = m
        /\ endpoint' = ep
        /\ given' = q
        /\ querystring' = CopyKeeps(q, Params(q, FALSE))
        /\ request' = Sent(ep, q, FALSE)
        /\ response' = resp
        /\ calls' = 1
        /\ error' = err
        /\ pc' = IF err = NoError THEN "returned" ELSE "raised"
        /\ retval' = IF err = NoError THEN Value(resp.list) ELSE NoValue
        /\ server' = NoServer
        /\ honest' = TRUE
        /\ Locals0
        /\ UNCHANGED <<account_id, project_id, auth_headers, api_filter, advanced>>

\* a single-resource accessor: its guard, then one _get
Accessor(m, guard, ep, q) ==
    /\ Ready
    /\ IF guard # NoError THEN RaiseEarly(m, guard) ELSE FetchOnce(m, ep, q)

\* ---------------------------------------------------------- public accessors
Filters == {"state:started"}
Labels == {"bug"}
StoryIds == {7}
IntegrationIds == {1, 2}

get_stories_by_filter ==
    /\ Ready
    /\ \E pivotal_filter \in Filters, srv \in Servers :
        LET guard == _verify_project_id_exists("get_stories_by_filter")
            filt == Put(api_filter, "filter", pivotal_filter)
        IN  IF guard # NoError
            THEN RaiseEarly("get_stories_by_filter", guard)
            ELSE /\ Enter_get_all("get_stories_by_filter", api_stories, filt, srv)
                 /\ api_filter' = CopyKeeps(api_filter, filt)

get_stories_by_label ==
    /\ Ready
    /\ \E label \in Labels, srv \in Servers :
        LET guard == _verify_project_id_exists("get_stories_by_label")
            filt == [k \in {"filter"} |-> "label:\"" \o label \o "\""]
        IN  IF guard # NoError
            THEN RaiseEarly("get_stories_by_label", guard)
            ELSE /\ Enter_get_all("get_stories_by_label", api_stories, filt, srv)
                 /\ UNCHANGED api_filter

get_story_activities ==
    \E story_id \in StoryIds :
        Accessor("get_story_activities",
                 _verify_project_id_exists("get_story_activities"),
                 Format(api_activity, ToString(story_id)), EmptyMap)

get_project_memberships ==
    Accessor("get_project_memberships",
             _verify_project_id_exists("get_project_memberships"),
             api_project_memberships, EmptyMap)

get_account_memberships ==
    Accessor("get_account_memberships",
             _verify_account_id_exists("get_account_memberships"),
             api_account_memberships, EmptyMap)

get_integrations ==
    Accessor("get_integrations",
             _verify_project_id_exists("get_integrations"),
             api_integrations, EmptyMap)

get_integration ==
    \E integration_id \in IntegrationIds :
        Accessor("get_integration",
                 _verify_project_id_exists("get_integration"),
                 Format(api_integration, ToString(integration_id)), EmptyMap)

\* querystring of get_integration_stories
ExcludeLinked == [k \in {"exclude_linked"} |-> "true"]

get_integration_stories ==
    \E integration_id \in IntegrationIds :
        Accessor("get_integration_stories",
                 _verify_project_id_exists("get_integration_stories"),
                 Format(api_integration_stories, ToString(integration_id)),
                 ExcludeLinked)

\* get_all_integration_stories up to the end of its get_integrations() call
get_all_integration_stories ==
    /\ Ready
    /\ LET guard == _verify_project_id_exists("get_integrations") IN
       IF guard # NoError
       THEN RaiseEarly("get_all_integration_stories", guard)
       ELSE \E resp \in Failures \cup BareAnswers :
            LET err == GetOutcome(api_integrations, resp) IN
            /\ method' = "get_all_integration_stories"
            /\ endpoint' = api_integrations
            /\ given' = EmptyMap
            /\ querystring' = CopyKeeps(EmptyMap, Params(EmptyMap, FALSE))
            /\ pages' = <<>>
            /\ request' = Sent(api_integrations, EmptyMap, FALSE)
            /\ response' = resp
            /\ calls' = 1
            /\ error' = err
            /\ results' = <<>>
            /\ integrations' = IF err = NoError THEN resp.list ELSE <<>>
            /\ idx' = 1
            /\ pc' = IF err # NoError THEN "raised"
                     ELSE IF Len(resp.list) = 0 THEN "returned"
                     ELSE "integration_stories"
            /\ retval' = IF err = NoError /\ Len(resp.list) = 0
                         THEN Value(<<>>) ELSE NoValue
            /\ server' = NoServer
            /\ honest' = TRUE
            /\ _querystring' = EmptyMap
            /\ UNCHANGED <<account_id, project_id, auth_headers, api_filter, advanced>>

\* faulty variant: the integrations are visited from the end of the list
StoriesEndpoint_Reversed(ints, i) ==
    Format(api_integration_stories, ToString(ints[Len(ints) + 1 - i].id))

\* the endpoint of the i-th turn of the for loop:
\* get_integration_stories(integration.get('id'))
StoriesEndpoint(ints, i) ==
    Format(api_integration_stories, ToString(ints[i].id))

\* one turn of the for loop of get_all_integration_stories, or its return
IntegrationStories ==
    /\ pc = "integration_stories"
    /\ LET guard == _verify_project_id_exists("get_integration_stories")
           ep == StoriesEndpoint(integrations, idx)
       IN
       \E resp \in Failures \cup BareAnswers :
        LET err == IF guard # NoError THEN guard ELSE GetOutcome(ep, resp)
            last == idx = Len(integrations)
        IN
        /\ endpoint' = ep
        /\ given' = ExcludeLinked
        /\ querystring' = CopyKeeps(ExcludeLinked, Params(ExcludeLinked, FALSE))
        /\ pages' = IF err = NoError THEN Append(pages, resp.list) ELSE pages
        /\ request' = Sent(ep, ExcludeLinked, FALSE)
        /\ response' = resp
        /\ calls' = calls + 1
        /\ error' = err
        /\ results' = IF err = NoError THEN Extend(results, resp.list) ELSE results
        /\ idx' = IF err = NoError THEN idx + 1 ELSE idx
        /\ pc' = IF err # NoError THEN "raised"
                 ELSE IF last THEN "returned" ELSE "integration_stories"
        /\ retval' = IF err = NoError /\ last
                     THEN Value(Extend(results, resp.list)) ELSE NoValue
        /\ UNCHANGED <<account_id, project_id, auth_headers, api_filter, method,
                       _querystring, integrations, server, honest, advanced>>

\* ------------------------------------------------------------ specification
\* {'date_format': 'millis', 'filter': None}
ApiFilter0 ==
    [k \in {"date_format", "filter"} |-> IF k = "date_format" THEN "millis" ELSE None]

\* PivotalClient(api_token, account_id, project_id)
Init ==
    /\ account_id \in {None, "a1"}
    /\ project_id \in {None, "p1"}
    /\ auth_headers = [k \in {"X-TrackerToken"} |-> "token"]
    /\ api_filter = ApiFilter0
    /\ pc = "idle"
    /\ method = ""
    /\ endpoint = NoEndpoint
    /\ querystring = EmptyMap
    /\ _querystring = EmptyMap
    /\ results = <<>>
    /\ integrations = <<>>
    /\ idx = 1
    /\ request = NoRequest
    /\ response = NoResponse
    /\ calls = 0
    /\ error = NoError
    /\ retval = NoValue
    /\ server = NoServer
    /\ honest = TRUE
    /\ advanced = FALSE
    /\ given = EmptyMap
    /\ pages = <<>>

\* the call in progress has returned or raised: its frame is gone and the
\* client can be called again
CallEnds ==
    /\ pc \in {"returned", "raised"}
    /\ pc' = "idle"
    /\ advanced' = (advanced \/ ("offset" \in DOMAIN _querystring /\ _querystring["offset"] > 0))
    /\ method' = ""
    /\ endpoint' = NoEndpoint
    /\ querystring' = EmptyMap
    /\ given' = EmptyMap
    /\ Locals0
    /\ request' = NoRequest
    /\ response' = NoResponse
    /\ calls' = 0
    /\ error' = NoError
    /\ retval' = NoValue
    /\ server' = NoServer
    /\ honest' = TRUE
    /\ UNCHANGED <<account_id, project_id, auth_headers, api_filter>>

Next ==
    \/ Call_get_all
    \/ GetAllPage
    \/ get_stories_by_filter
    \/ get_stories_by_label
    \/ get_story_activities
    \/ get_project_memberships
    \/ get_account_memberships
    \/ get_integrations
    \/ get_integration
    \/ get_integration_stories
    \/ get_all_integration_stories
    \/ IntegrationStories
    \/ CallEnds

Spec == Init /\ [][Next]_vars

\* ------------------------------------------------------------------ claims
InGetAll == method \in GetAllMethods /\ pc # "idle"

\* the records Rec(1) .. Rec(n), in the service's order
AllRecords(n) == [i \in 1..n |-> Rec(i)]

\* ceil(n / size)
CeilDiv(n, size) == (n + size - 1) \div size

\* the size of the pages the service of this call serves
PageSize == Min(DEFAULT_PAGE_LIMIT, server.cap)

\* C1: against a service that holds n records and answers every enveloped
\* request (limit, offset) with the records at offset .. offset+limit-1 under
\* its page cap, reporting the limit it applied, _get_all returns exactly the
\* n records, each once, in the service's order.
C1_AllRecordsOnce ==
    (InGetAll /\ honest /\ pc = "returned") =>
        (retval.set /\ retval.value = AllRecords(server.n))

\* C1 witness: three records served in pages of two: two non-empty pages, the
\* second one short, then the empty page.
C1_Witness ==
    /\ InGetAll /\ honest /\ pc = "returned"
    /\ server.n = 3 /\ server.cap = 2
    /\ retval.value = <<Rec(1), Rec(2), Rec(3)>>

\* C2: against such a service _get_all ends, after exactly
\* ceil(n / page size) + 1 fetches, the last of which is the one that returned
\* the empty page: it never issues more, and it has returned once it issued
\* that many.
C2_CallCount ==
    (InGetAll /\ honest) =>
        LET k == CeilDiv(server.n, PageSize) + 1 IN
        /\ calls <= k
        /\ (calls = k => pc = "returned")
        /\ (pc = "returned" => (calls = k /\ Data(response) = <<>>))

\* C2 witness: three records in pages of one: 3 + 1 fetches.
C2_Witness ==
    /\ InGetAll /\ honest /\ pc = "returned"
    /\ server.n = 3 /\ server.cap = 1
    /\ calls = 4

\* C3: within one _get_all call, the offset of every request after the first
\* is the offset of the request before it plus the limit sent with it, and that
\* limit is pagination.limit of the response before it when that response
\* carries one.
C3_OffsetAdvance ==
    [][(pc = "get_all" /\ calls >= 1 /\ calls' = calls + 1) =>
        /\ request'.params["offset"] =
              request.params["offset"] + request'.params["limit"]
        /\ (response.pag = "limit" =>
              request'.params["offset"] = request.params["offset"] + response.limit)
      ]_vars

\* C3 witness: the third request of a call whose first two pages both reported
\* limit 2: offsets 0, 2, 4.
C3_Witness ==
    /\ InGetAll /\ calls = 3
    /\ request.params["offset"] = 4 /\ request.params["limit"] = 2
    /\ honest

\* C4: the first request of every _get_all call carries offset 0 and limit
\* 1000, whatever cursor an earlier _get_all call on the client reached and
\* whatever limit or offset keys the caller's querystring holds.
C4_FreshCursor ==
    (InGetAll /\ calls = 1) =>
        /\ request.params["offset"] = 0
        /\ request.params["limit"] = DEFAULT_PAGE_LIMIT

\* C4 witness: a first request sent after an earlier _get_all call moved its
\* cursor, for a caller whose querystring holds limit 5 and offset 7.
C4_Witness ==
    /\ InGetAll /\ calls = 1 /\ advanced
    /\ "offset" \in DOMAIN querystring /\ querystring["offset"] = 7
    /\ "limit" \in DOMAIN querystring /\ querystring["limit"] = 5
    /\ request.params["offset"] = 0

\* the non-paginated single-resource accessors
SingleAccessors ==
    {"get_story_activities", "get_project_memberships", "get_account_memberships",
     "get_integrations", "get_integration", "get_integration_stories"}

\* C5: every request _get_all issues carries envelope=true, and every request
\* a non-paginated single-resource accessor issues carries no envelope
\* parameter.
C5_EnvelopeFlag ==
    (pc # "idle" /\ calls >= 1) =>
        /\ (method \in GetAllMethods =>
              ("envelope" \in DOMAIN request.params
                  /\ request.params["envelope"] = "true"))
        /\ (method \in SingleAccessors => "envelope" \notin DOMAIN request.params)

\* C5 witness: get_integration_stories has sent its request (exclude_linked
\* only) on a client that paginated before.
C5_Witness ==
    /\ method = "get_integration_stories" /\ pc = "returned" /\ calls = 1
    /\ request.params = ExcludeLinked
    /\ advanced

\* C6: when the first enveloped response of a _get_all call has empty data, or
\* no data field, the call returns the empty sequence and that fetch is the
\* only one it issued.
C6_EmptyFirstPage ==
    (InGetAll /\ calls = 1 /\ GetOutcome(endpoint, response) = NoError
        /\ Len(Data(response)) = 0) =>
        (pc = "returned" /\ retval = Value(<<>>))

\* C6 witness: the first response has no data field although the service
\* holds records.
C6_Witness ==
    /\ InGetAll /\ calls = 1 /\ pc = "returned"
    /\ response.kind = "response" /\ ~response.hasData
    /\ server.n = 3
    /\ retval = Value(<<>>)

\* a fetch failed by its HTTP status
StatusFailure(resp) == resp.kind = "response" /\ ~Is2xx(resp.status)

\* C7: when a page fetch of _get_all fails, _get_all raises the error of that
\* fetch (the ApiError naming endpoint and status when an HTTP status failed
\* it), the failed fetch is the last request it issued, and no value, so no
\* partial accumulator, reaches its caller.
C7_ErrorAborts ==
    /\ (InGetAll /\ calls >= 1 /\ GetOutcome(endpoint, response) # NoError) =>
          /\ pc = "raised"
          /\ error = GetOutcome(endpoint, response)
          /\ (StatusFailure(response) => error = GetError(endpoint, response.status))
          /\ retval = NoValue
    /\ (InGetAll /\ pc = "raised" /\ calls >= 1) =>
          GetOutcome(endpoint, response) # NoError

\* C7 witness: HTTP 404 on the third page, after two non-empty pages.
C7_Witness ==
    /\ InGetAll /\ pc = "raised" /\ calls = 3
    /\ response.status = 404
    /\ results = <<Rec(1), Rec(2)>>
    /\ error = GetError(endpoint, 404)

\* the methods that need the project id
ProjectScoped ==
    {"get_stories_by_filter", "get_stories_by_label", "get_story_activities",
     "get_project_memberships", "get_integrations", "get_integration",
     "get_integration_stories", "get_all_integration_stories"}

\* C8: on a client without project id every project-scoped method raises
\* ApiError having made no network call, and so does get_account_memberships
\* on a client without account id.
C8_GuardsBeforeNetwork ==
    LET unguarded ==
            \/ (method \in ProjectScoped /\ Falsy(project_id))
            \/ (method = "get_account_memberships" /\ Falsy(account_id))
    IN  (pc # "idle" /\ unguarded) =>
            /\ pc = "raised"
            /\ error.kind = "ApiError"
            /\ calls = 0
            /\ request = NoRequest

\* C8 witness: get_all_integration_stories raised on a client that has an
\* account id and no project id.
C8_Witness ==
    /\ method = "get_all_integration_stories" /\ pc = "raised"
    /\ Falsy(project_id) /\ ~Falsy(account_id)
    /\ error.kind = "ApiError" /\ calls = 0

\* C9: for a response with an HTTP status, _get returns only when the status
\* is in [200, 300), and then (the body being JSON) it returns the parsed body;
\* for every status outside the range it raises the ApiError that carries the
\* endpoint and the status, and returns nothing.
C9_StatusRange ==
    (pc # "idle" /\ calls >= 1 /\ response.kind = "response") =>
        /\ (error = NoError => Is2xx(response.status))
        /\ ((Is2xx(response.status) /\ response.json) =>
              /\ error = NoError
              /\ (method \in SingleAccessors =>
                    (pc = "returned" /\ retval = Value(response.list))))
        /\ (~Is2xx(response.status) =>
              /\ pc = "raised"
              /\ error = GetError(request.endpoint, response.status)
              /\ retval = NoValue)

\* C9 witness: status 300, the first status past the range, raised as
\* ApiError with the accessor's endpoint.
C9_Witness ==
    /\ method = "get_project_memberships" /\ pc = "raised"
    /\ response.kind = "response" /\ response.status = 300
    /\ error = GetError(api_project_memberships, 300)

\* a fetch that failed otherwise than by its status code
OtherFailure(resp) ==
    \/ resp.kind \in {"null", "netfail"}
    \/ (resp.kind = "response" /\ Is2xx(resp.status) /\ ~resp.json)

\* C10: a missing response object, a 2xx response whose body is not JSON and a
\* network-level failure all reach the caller of _get as ApiError, the error
\* kind of an HTTP-level failure.
C10_SingleErrorKind ==
    (pc # "idle" /\ calls >= 1 /\ OtherFailure(response)) =>
        (pc = "raised" /\ error.kind = "ApiError")

\* C11: the querystring mapping a caller passes to _get or _get_all holds after
\* the call, and at every point of it, what it held when it was passed: on
\* success, on error and after any number of pages; and the client's api_filter
\* mapping is never changed.
C11_CallerMappingKept ==
    /\ api_filter = ApiFilter0
    /\ (pc # "idle" => querystring = given)

\* C11 witness: get_stories_by_filter raised on its third page; the mapping it
\* passed still holds the two keys it was built with, while the copy holds the
\* cursor.
C11_Witness ==
    /\ method = "get_stories_by_filter" /\ pc = "raised" /\ calls = 3
    /\ DOMAIN querystring = {"date_format", "filter"}
    /\ querystring["filter"] = "state:started"
    /\ _querystring["offset"] > 0
    /\ api_filter["filter"] = None

\* a turn of the loop that sends a request after an earlier one of the call
NextPageStep == pc = "get_all" /\ calls >= 1 /\ calls' = calls + 1

\* C12: after a non-empty page, the limit sent in the next request is
\* pagination.limit of that page's response when it carries one, and otherwise
\* the limit sent with the request before (the prior value is kept).
C12_LimitKept ==
    [][NextPageStep =>
        request'.params["limit"] =
            IF response.pag = "limit" THEN response.limit
            ELSE request.params["limit"]
      ]_vars

\* C13: within one _get_all call the offset of every request is strictly
\* greater than the offset of the request before it, for every
\* pagination.limit the service may report, 0 and negative values included.
C13_OffsetIncreases ==
    [][NextPageStep => request'.params["offset"] > request.params["offset"]]_vars

\* the concatenation of a sequence of lists, in order
RECURSIVE Flatten(_)
Flatten(ps) == IF ps = <<>> THEN <<>> ELSE Head(ps) \o Flatten(Tail(ps))

\* the pages of a call that came before its first empty page
BeforeEmpty(ps) ==
    LET stops == {i \in DOMAIN ps : ps[i] = <<>>} IN
    IF stops = {} THEN ps
    ELSE SubSeq(ps, 1, (CHOOSE i \in stops : \A j \in stops : i <= j) - 1)

\* C14: whatever the service answers, the accumulator of _get_all is at every
\* point the concatenation, in fetch order and with the order inside each page
\* kept, of the data of the pages received so far, and the value returned is
\* that concatenation for exactly the pages received before the first empty
\* page, which is the last page fetched: nothing is reordered, dropped or
\* deduplicated.
C14_Concatenation ==
    InGetAll =>
        /\ results = Flatten(pages)
        /\ results = Flatten(BeforeEmpty(pages))
        /\ Len(pages) = (IF pc = "raised" /\ calls >= 1 THEN calls - 1 ELSE calls)
        /\ (pc = "returned" =>
              /\ retval = Value(Flatten(BeforeEmpty(pages)))
              /\ pages # <<>>
              /\ pages[Len(pages)] = <<>>
              /\ Len(BeforeEmpty(pages)) = Len(pages) - 1)

\* C14 witness: the service served the second record twice (a page of two,
\* then a page of one from offset 1); both copies are returned, in fetch order.
C14_Witness ==
    /\ InGetAll /\ pc = "returned"
    /\ pages = << <<Rec(1), Rec(2)>>, <<Rec(2)>>, <<>> >>
    /\ retval = Value(<<Rec(1), Rec(2), Rec(2)>>)

\* C15: an empty page is the only thing that ends _get_all's loop normally:
\* after a successful fetch the call has returned exactly when the response's
\* data is empty, also when pagination.total says records remain past the
\* offset asked for, and it is still in its loop exactly when the data is not
\* empty, also when the next offset has reached or passed pagination.total.
C15_EmptyPageStops ==
    (InGetAll /\ calls >= 1 /\ GetOutcome(endpoint, response) = NoError) =>
        /\ (pc = "returned" <=> Len(Data(response)) = 0)
        /\ (pc = "get_all" <=> Len(Data(response)) > 0)

\* C15 witness: the second response is empty although total is 3 and the
\* offset asked for was 1: the call returned the first record only.
C15_Witness ==
    /\ InGetAll /\ pc = "returned" /\ calls = 2
    /\ response.hasData /\ response.data = <<>> /\ response.total = 3
    /\ request.params["offset"] = 1
    /\ retval = Value(<<Rec(1)>>)

\* C16: _get_all bounds the number of pages by nothing: every step it takes
\* from its loop issues one more request, and it leaves the loop only when
\* that request's response has empty data or the fetch raised; after a
\* successful response with at least one record it is in the loop again,
\* whatever the number of requests issued so far.
C16_NoPageBound ==
    [][(pc = "get_all") =>
        /\ calls' = calls + 1
        /\ pc' \in {"get_all", "returned", "raised"}
        /\ (pc' = "returned" => Len(Data(response')) = 0 /\ error' = NoError)
        /\ (pc' = "raised" => error' # NoError /\ error' = GetOutcome(endpoint, response'))
        /\ ((GetOutcome(endpoint, response') = NoError /\ Len(Data(response')) > 0)
              => pc' = "get_all")
      ]_vars

\* C16 witness: the call is still in its loop after as many requests as the
\* model lets it issue, each answered with at least one record.
C16_Witness ==
    /\ InGetAll /\ pc = "get_all" /\ calls = MaxCalls
    /\ Len(pages) = MaxCalls
    /\ \A i \in DOMAIN pages : Len(pages[i]) >= 1

\* the query parameters other than the cursor's
Rest(params) == [k \in (DOMAIN params) \ {"limit", "offset"} |-> params[k]]

\* C17: across the requests of one _get_all call every query parameter other
\* than limit and offset (the caller's keys and envelope) has the same value
\* on each page as on the page before, hence as on the first.
C17_OtherParamsFixed ==
    [][NextPageStep =>
        /\ Rest(request'.params) = Rest(request.params)
        /\ {"limit", "offset"} \subseteq DOMAIN request'.params
      ]_vars

\* C17 witness: the third request of get_stories_by_filter carries the filter,
\* date_format and envelope of the first, with the offset moved to 2.
C17_Witness ==
    /\ method = "get_stories_by_filter" /\ pc # "idle" /\ calls = 3
    /\ request.params["filter"] = "state:started"
    /\ request.params["date_format"] = "millis"
    /\ request.params["envelope"] = "true"
    /\ request.params["offset"] = 2

\* C18: get_all_integration_stories on a client with a project id issues one
\* request for the integration list, then one non-paginated request per
\* integration in list order, and returns the concatenation of the story lists
\* in that order; when a request fails the error propagates, the failed request
\* is the last one issued and no list is returned.
C18_IntegrationStories ==
    (method = "get_all_integration_stories" /\ pc # "idle" /\ calls >= 1) =>
        /\ calls <= 1 + Len(integrations)
        /\ (calls = 1 =>
              (request.endpoint = api_integrations /\ request.params = EmptyMap))
        /\ (calls >= 2 =>
              /\ request.endpoint =
                    Format(api_integration_stories,
                           ToString(integrations[calls - 1].id))
              /\ request.params = ExcludeLinked)
        /\ results = Flatten(pages)
        /\ (pc = "integration_stories" =>
              (Len(pages) = calls - 1 /\ calls <= Len(integrations)))
        /\ (pc = "returned" =>
              /\ calls = 1 + Len(integrations)
              /\ Len(pages) = Len(integrations)
              /\ retval = Value(Flatten(pages)))
        /\ (pc = "raised" <=> GetOutcome(request.endpoint, response) # NoError)
        /\ (pc = "raised" =>
              /\ error = GetOutcome(request.endpoint, response)
              /\ retval = NoValue)

\* C18 witness: two integrations, 1 then 2; the stories of the first come
\* first in the result.
C18_Witness ==
    /\ method = "get_all_integration_stories" /\ pc = "returned" /\ calls = 3
    /\ integrations = <<Rec(1), Rec(2)>>
    /\ pages = << <<Rec(2), Rec(3)>>, <<Rec(1)>> >>
    /\ retval = Value(<<Rec(2), Rec(3), Rec(1)>>)

====
